---------------------------- MODULE Spec2Model ----------------------------
(***************************************************************************)
(* Model of dds-token-server.                                              *)
(*                                                                         *)
(*   main.py     the Agora token endpoints /token, /rtc/token, /rtm/token  *)
(*   web_app.py  the token-gated scheduling form /online/agendar           *)
(*                                                                         *)
(* Python strings whose characters the code inspects (strip, regular       *)
(* expressions, slugify) are sequences of one-character strings; opaque    *)
(* strings (API keys, form tokens, file names) are TLA+ strings.           *)
(***************************************************************************)
EXTENDS Integers, Sequences, FiniteSets, TLC

VARIABLES
    \* ---- main.py ----
    env,              \* the process environment read at import time
    rtmLib,           \* attribute names agora_src.RtmTokenBuilder exposes
    service,          \* "loading" | "running" | "crashed" (module import)
    APP_ID,           \* main.py:31
    APP_CERTIFICATE,  \* main.py:32
    API_KEY,          \* main.py:40
    clock,            \* int(time.time()) / datetime.utcnow()
    req,              \* token requests, one per worker thread
    \* ---- web_app.py ----
    tokensDb,         \* Firestore collection OnlineFormTokens
    sessionsDb,       \* Firestore collection DDS_Sessions
    bucketBlobs,      \* object names present in the storage bucket
    freq              \* form requests in flight or answered

tokVars  == <<env, rtmLib, service, APP_ID, APP_CERTIFICATE, API_KEY, req>>
formVars == <<tokensDb, sessionsDb, bucketBlobs, freq>>
vars     == <<env, rtmLib, service, APP_ID, APP_CERTIFICATE, API_KEY, clock,
              req, tokensDb, sessionsDb, bucketBlobs, freq>>

\* Python's None for an opaque string (an environment variable, an API key).
NoVal == "None"

\* Optional values of the other types: None is <<>>, a value v is <<v>>.
None      == <<>>
Some(v)   == <<v>>
IsNone(o) == o = <<>>
Val(o)    == o[1]

\* ---------------------------------------------------------------- bounds
MaxClock == 2

\* -------------------------------------------------------- Python strings
IsSpace(c) == c \in {" ", "\n"}

RECURSIVE LStrip(_)
LStrip(s) == IF s # <<>> /\ IsSpace(Head(s)) THEN LStrip(Tail(s)) ELSE s

RECURSIVE RStrip(_)
RStrip(s) ==
    IF s # <<>> /\ IsSpace(s[Len(s)]) THEN RStrip(SubSeq(s, 1, Len(s) - 1)) ELSE s

\* str.strip()
Strip(s) == RStrip(LStrip(s))

Digit(d) == CASE d = 0 -> "0" [] d = 1 -> "1" [] d = 2 -> "2" [] d = 3 -> "3"
              [] d = 4 -> "4" [] d = 5 -> "5" [] d = 6 -> "6" [] d = 7 -> "7"
              [] d = 8 -> "8" [] d = 9 -> "9"

RECURSIVE StrNat(_)
StrNat(n) == IF n < 10 THEN <<Digit(n)>> ELSE StrNat(n \div 10) \o <<Digit(n % 10)>>

\* str(int)
Str(n) == IF n < 0 THEN <<"-">> \o StrNat(-n) ELSE StrNat(n)

\* Python truthiness of an opaque optional string: None and "" are false.
Truthy(s) == s # NoVal /\ s # ""

\* ================================================================ main.py

\* class ClientRole
ClientRole == {"host", "cohost", "participant"}

\* Field(ge=60) and Field(le=24 * 60 * 60) of expire_seconds, and its default
MinExpireSeconds == 60
MaxExpireSeconds == 86400
DefaultExpireSeconds == 3600

\* The request bodies the model submits: every combination of these fields.
Channels     == { <<>>, <<" ">>, <<" ", "a">> }
Uids         == { -1, 0, 12 }
Durations    == { None, Some(MinExpireSeconds - 1), Some(MinExpireSeconds),
                  Some(MaxExpireSeconds), Some(MaxExpireSeconds + 1) }
UserAccounts == { None, Some(<<>>), Some(<<" ">>), Some(<<"b", " ">>) }
ApiKeys      == { NoVal, "k1", "k2" }
Endpoints    == { "generate_tokens", "generate_rtc_token", "generate_rtm_token" }

Payloads == [channel : Channels, uid : Uids, role : ClientRole,
             expire_seconds : Durations, user_account : UserAccounts,
             api_key : ApiKeys]

\* pydantic fills in the default of a field the body leaves out
ExpireSecondsOf(p) ==
    IF IsNone(p.expire_seconds) THEN DefaultExpireSeconds ELSE Val(p.expire_seconds)

\* TokenRequest: the field constraints FastAPI checks before calling the handler
ChannelFieldOk(p) == Len(p.channel) >= 1
UidFieldOk(p)     == p.uid >= 0
\* A faulty variant of ExpireFieldOk: gt / lt in place of ge / le
ExpireFieldOkExclusive(p) == /\ ExpireSecondsOf(p) > MinExpireSeconds
                             /\ ExpireSecondsOf(p) < MaxExpireSeconds
ExpireFieldOk(p)  == /\ ExpireSecondsOf(p) >= MinExpireSeconds
                     /\ ExpireSecondsOf(p) <= MaxExpireSeconds
AccountFieldOk(p) == IsNone(p.user_account) \/ Len(Val(p.user_account)) >= 1

TokenRequestValid(p) ==
    ChannelFieldOk(p) /\ UidFieldOk(p) /\ ExpireFieldOk(p) /\ AccountFieldOk(p)

\* The first constraint that fails, as the 422 body reports it
TokenRequestError(p) ==
    CASE ~ChannelFieldOk(p) -> "channel"
      [] ~UidFieldOk(p)     -> "uid"
      [] ~ExpireFieldOk(p)  -> "expire_seconds"
      [] OTHER              -> "user_account"

\* A faulty variant of map_role: only the host publishes
map_role_host_only(client_role) ==
    IF client_role = "host" THEN "Role_Publisher" ELSE "Role_Subscriber"

\* def map_role
map_role(client_role) ==
    IF client_role \in {"host", "cohost"} THEN "Role_Publisher" ELSE "Role_Subscriber"

\* A faulty variant of validate_api_key: a request without api_key passes
ApiKeyRejectedIfPresent(api_key) ==
    Truthy(API_KEY) /\ api_key # NoVal /\ api_key # API_KEY

\* def validate_api_key: TRUE when it raises HTTPException(401)
ApiKeyRejected(api_key) == Truthy(API_KEY) /\ api_key # API_KEY

\* expire_ts = now_ts + payload.expire_seconds
ExpireTs(now_ts, p) == now_ts + ExpireSecondsOf(p)

\* (payload.user_account or str(uid)).strip()
ResolveAccount(p) ==
    Strip(IF ~IsNone(p.user_account) /\ Val(p.user_account) # <<>>
          THEN Val(p.user_account) ELSE Str(p.uid))

\* The entry point build_rtm_token_compat picks, in the order it tries them
RtmEntryPoint ==
    CASE "build_token" \in rtmLib               -> "build_token"
      [] "buildToken" \in rtmLib                -> "buildToken"
      [] "buildTokenWithUserAccount" \in rtmLib -> "buildTokenWithUserAccount"
      [] OTHER                                  -> NoVal

\* The environments and signing libraries the service may be started with
Envs == [AGORA_APP_ID : {NoVal, "", "app1"},
         AGORA_APP_CERTIFICATE : {NoVal, "cert1"},
         TOKEN_SERVER_API_KEY : {NoVal, "", "k1"}]
RtmMethods == {"build_token", "buildToken", "buildTokenWithUserAccount"}
RtmLibs == SUBSET RtmMethods

\* A worker that holds no request
IdleReq == [pc |-> "idle", ep |-> "none", payload |-> None, now_ts |-> None,
            rtc_token |-> None, status |-> 0, detail |-> "", exc |-> "",
            body |-> None,
            rtcCalls |-> <<>>, rtmCalls |-> <<>>]

P(r) == Val(req[r].payload)

\* raise HTTPException(status_code, detail): the request ends. exc names the
\* exception an except clause caught, "" when the handler raised the
\* HTTPException itself.
Raise(rq, status, detail, exc) ==
    [rq EXCEPT !.pc = "done", !.status = status, !.detail = detail, !.exc = exc]

\* return <response model>: the request ends with status 200
Return(rq, body) == [rq EXCEPT !.pc = "done", !.status = 200, !.body = Some(body)]

\* Module import, main.py:31-40: read the environment, refuse to start
\* without the credentials.
LoadModule ==
    /\ service = "loading"
    /\ APP_ID' = env.AGORA_APP_ID
    /\ APP_CERTIFICATE' = env.AGORA_APP_CERTIFICATE
    /\ IF ~Truthy(env.AGORA_APP_ID) \/ ~Truthy(env.AGORA_APP_CERTIFICATE)
       THEN service' = "crashed" /\ API_KEY' = API_KEY
       ELSE service' = "running" /\ API_KEY' = env.TOKEN_SERVER_API_KEY
    /\ UNCHANGED <<env, rtmLib, clock, req>>
    /\ UNCHANGED formVars

\* FastAPI parses the body into a TokenRequest and answers 422 itself when a
\* field constraint fails; the handler runs only on a valid TokenRequest.
ReceiveRequest(r, bodies) ==
    /\ service = "running"
    /\ req[r].pc = "idle"
    /\ \E ep \in Endpoints, p \in bodies :
         req' = [req EXCEPT ![r] =
                   IF TokenRequestValid(p)
                   THEN [IdleReq EXCEPT !.pc = "handler", !.ep = ep,
                                        !.payload = Some(p)]
                   ELSE [IdleReq EXCEPT !.pc = "done", !.ep = ep,
                                        !.payload = Some(p), !.status = 422,
                                        !.detail = TokenRequestError(p)]]
    /\ UNCHANGED <<env, rtmLib, service, APP_ID, APP_CERTIFICATE, API_KEY, clock>>
    /\ UNCHANGED formVars

\* A faulty variant of TokensChecks: the account check of line 141 is missing
TokensChecksNoAccount(p) ==
    CASE ApiKeyRejected(p.api_key) ->
            [status |-> 401, detail |-> "Invalid API key", exc |-> ""]
      [] Strip(p.channel) = <<>> ->
            [status |-> 400, detail |-> "Channel name cannot be empty.", exc |-> ""]
      [] p.uid < 0 ->
            [status |-> 400, detail |-> "UID must be >= 0.", exc |-> ""]
      [] OTHER -> [status |-> 0, detail |-> "", exc |-> ""]

\* generate_tokens, lines 125-142: the HTTPException it raises before the try,
\* status 0 when it raises none
TokensChecks(p) ==
    CASE ApiKeyRejected(p.api_key) ->
            [status |-> 401, detail |-> "Invalid API key", exc |-> ""]
      [] Strip(p.channel) = <<>> ->
            [status |-> 400, detail |-> "Channel name cannot be empty.", exc |-> ""]
      [] p.uid < 0 ->
            [status |-> 400, detail |-> "UID must be >= 0.", exc |-> ""]
      [] ResolveAccount(p) = <<>> ->
            [status |-> 400, exc |-> "",
             detail |-> "user_account cannot be empty when provided."]
      [] OTHER -> [status |-> 0, detail |-> "", exc |-> ""]

\* generate_rtc_token, lines 250-261
RtcChecks(p) ==
    CASE ApiKeyRejected(p.api_key) ->
            [status |-> 401, detail |-> "Invalid API key", exc |-> ""]
      [] Strip(p.channel) = <<>> ->
            [status |-> 400, detail |-> "Channel name cannot be empty.", exc |-> ""]
      [] p.uid < 0 ->
            [status |-> 400, detail |-> "UID must be >= 0.", exc |-> ""]
      [] OTHER -> [status |-> 0, detail |-> "", exc |-> ""]

\* generate_rtm_token, lines 306-316: the ValueError is raised inside the try
\* and leaves it as the HTTPException(500) of the except clause
RtmChecks(p) ==
    CASE ApiKeyRejected(p.api_key) ->
            [status |-> 401, detail |-> "Invalid API key", exc |-> ""]
      [] ResolveAccount(p) = <<>> ->
            [status |-> 500, exc |-> "ValueError",
             detail |-> "Failed to generate RTM token"]
      [] OTHER -> [status |-> 0, detail |-> "", exc |-> ""]

HandlerChecks(ep, p) ==
    CASE ep = "generate_tokens"    -> TokensChecks(p)
      [] ep = "generate_rtc_token" -> RtcChecks(p)
      [] OTHER                     -> RtmChecks(p)

\* A faulty variant of EnterHandler: it keeps the caller's key in the
\* module-level API_KEY
EnterHandlerStoringKey(r) ==
    /\ req[r].pc = "handler"
    /\ API_KEY' = P(r).api_key
    /\ LET chk == HandlerChecks(req[r].ep, P(r)) IN
       req' = [req EXCEPT ![r] =
                 IF chk.status # 0
                 THEN Raise(req[r], chk.status, chk.detail, chk.exc)
                 ELSE [req[r] EXCEPT
                         !.pc = IF req[r].ep = "generate_rtm_token"
                                THEN "build_rtm" ELSE "build_rtc",
                         !.now_ts = Some(clock)]]
    /\ UNCHANGED <<env, rtmLib, service, APP_ID, APP_CERTIFICATE, clock>>
    /\ UNCHANGED formVars

\* The handler up to its first call into the signing library: authorisation,
\* the checks, and the clock read.
EnterHandler(r) ==
    /\ req[r].pc = "handler"
    /\ LET chk == HandlerChecks(req[r].ep, P(r)) IN
       req' = [req EXCEPT ![r] =
                 IF chk.status # 0
                 THEN Raise(req[r], chk.status, chk.detail, chk.exc)
                 ELSE [req[r] EXCEPT
                         !.pc = IF req[r].ep = "generate_rtm_token"
                                THEN "build_rtm" ELSE "build_rtc",
                         !.now_ts = Some(clock)]]
    /\ UNCHANGED <<env, rtmLib, service, APP_ID, APP_CERTIFICATE, API_KEY, clock>>
    /\ UNCHANGED formVars

\* The arguments of RtcTokenBuilder.build_token_with_uid
RtcArgs(r) ==
    LET ts == ExpireTs(Val(req[r].now_ts), P(r)) IN
    [app_id |-> APP_ID, app_certificate |-> APP_CERTIFICATE,
     channel |-> Strip(P(r).channel), uid |-> P(r).uid,
     role |-> map_role(P(r).role), token_expire |-> ts, privilege_expire |-> ts]

\* The arguments of build_rtm_token_compat, with the library method it picks
\* (None when the library has none of them) and the role it passes on
RtmArgs(r) ==
    [method |-> RtmEntryPoint, app_id |-> APP_ID, app_cert |-> APP_CERTIFICATE,
     user_account |-> ResolveAccount(P(r)), role |-> "Role_Rtm_User",
     expire_ts |-> ExpireTs(Val(req[r].now_ts), P(r))]

\* class TokenResponse
RtcBody(r, token) ==
    [token |-> token, expire_at |-> ExpireTs(Val(req[r].now_ts), P(r)),
     now |-> Val(req[r].now_ts), channel |-> Strip(P(r).channel),
     uid |-> P(r).uid, role |-> P(r).role]

\* class RtmTokenResponse
RtmBody(r, token) ==
    [token |-> token, expire_at |-> ExpireTs(Val(req[r].now_ts), P(r)),
     now |-> Val(req[r].now_ts), uid |-> P(r).uid]

\* class CombinedTokenResponse
CombinedBody(r, rtm_token) ==
    [rtc_token |-> Val(req[r].rtc_token), rtm_token |-> rtm_token,
     expire_at |-> ExpireTs(Val(req[r].now_ts), P(r)),
     now |-> Val(req[r].now_ts), channel |-> Strip(P(r).channel),
     uid |-> P(r).uid, role |-> P(r).role,
     user_account |-> ResolveAccount(P(r))]

\* The detail prefix of each handler's except clause
FailDetail(ep) ==
    CASE ep = "generate_tokens"    -> "Failed to generate tokens"
      [] ep = "generate_rtc_token" -> "Failed to generate token"
      [] OTHER                     -> "Failed to generate RTM token"

\* RtcTokenBuilder.build_token_with_uid(...) inside the try: it returns a
\* token or raises, and the except clause turns any exception into a 500.
\* The token is the signing library's and opaque here: the model keeps what
\* was signed.
BuildRtc(r) ==
    /\ req[r].pc = "build_rtc"
    /\ LET called == [req[r] EXCEPT !.rtcCalls = Append(@, RtcArgs(r))] IN
       \/ LET token == [signed |-> RtcArgs(r)] IN
            req' = [req EXCEPT ![r] =
                      IF req[r].ep = "generate_tokens"
                      THEN [called EXCEPT !.pc = "build_rtm",
                                          !.rtc_token = Some(token)]
                      ELSE Return(called, RtcBody(r, token))]
       \/ req' = [req EXCEPT ![r] =
                    Raise(called, 500, FailDetail(req[r].ep), "LibraryError")]
    /\ UNCHANGED <<env, rtmLib, service, APP_ID, APP_CERTIFICATE, API_KEY, clock>>
    /\ UNCHANGED formVars

\* build_rtm_token_compat(...) inside the try: the hasattr chain runs on
\* every call; with no known method it raises RuntimeError.
BuildRtm(r) ==
    /\ req[r].pc = "build_rtm"
    /\ LET called == [req[r] EXCEPT !.rtmCalls = Append(@, RtmArgs(r))]
           body(token) == IF req[r].ep = "generate_tokens"
                          THEN CombinedBody(r, token) ELSE RtmBody(r, token)
       IN
       \/ /\ RtmEntryPoint = NoVal
          /\ req' = [req EXCEPT ![r] =
                       Raise(called, 500, FailDetail(req[r].ep), "RuntimeError")]
       \/ /\ RtmEntryPoint # NoVal
          /\ req' = [req EXCEPT ![r] =
                       Return(called, body([signed |-> RtmArgs(r)]))]
       \/ /\ RtmEntryPoint # NoVal
          /\ req' = [req EXCEPT ![r] =
                       Raise(called, 500, FailDetail(req[r].ep), "LibraryError")]
    /\ UNCHANGED <<env, rtmLib, service, APP_ID, APP_CERTIFICATE, API_KEY, clock>>
    /\ UNCHANGED formVars

\* time passes
Tick ==
    /\ clock < MaxClock
    /\ clock' = clock + 1
    /\ UNCHANGED <<env, rtmLib, service, APP_ID, APP_CERTIFICATE, API_KEY, req>>
    /\ UNCHANGED formVars

\* ============================================================ web_app.py

LowerCase == <<"a", "b", "c", "d", "e", "f", "g", "h", "i", "j", "k", "l", "m",
               "n", "o", "p", "q", "r", "s", "t", "u", "v", "w", "x", "y", "z">>
UpperCase == <<"A", "B", "C", "D", "E", "F", "G", "H", "I", "J", "K", "L", "M",
               "N", "O", "P", "Q", "R", "S", "T", "U", "V", "W", "X", "Y", "Z">>
Digits    == {"0", "1", "2", "3", "4", "5", "6", "7", "8", "9"}

UpperChar(c) == IF \E i \in 1..26 : LowerCase[i] = c
                THEN UpperCase[CHOOSE i \in 1..26 : LowerCase[i] = c] ELSE c
LowerChar(c) == IF \E i \in 1..26 : UpperCase[i] = c
                THEN LowerCase[CHOOSE i \in 1..26 : UpperCase[i] = c] ELSE c

\* str.upper(), str.lower()
Upper(s) == [i \in 1..Len(s) |-> UpperChar(s[i])]
Lower(s) == [i \in 1..Len(s) |-> LowerChar(s[i])]

\* str.replace(c, "")
RECURSIVE Remove(_, _)
Remove(s, c) ==
    IF s = <<>> THEN <<>>
    ELSE IF Head(s) = c THEN Remove(Tail(s), c)
    ELSE <<Head(s)>> \o Remove(Tail(s), c)

\* re.sub(r"\s+", "", s)
RECURSIVE RemoveSpaces(_)
RemoveSpaces(s) ==
    IF s = <<>> THEN <<>>
    ELSE IF IsSpace(Head(s)) THEN RemoveSpaces(Tail(s))
    ELSE <<Head(s)>> \o RemoveSpaces(Tail(s))

\* def _norm_team
_norm_team(s) == Upper(RemoveSpaces(Strip(s)))

IsAlnumUpper(c) == c \in Digits \/ \E i \in 1..26 : UpperCase[i] = c

\* re.sub(r"[^A-Z0-9]+", "-", s): every maximal run of other characters
\* becomes one "-"
RECURSIVE SubNonAlnum(_, _)
SubNonAlnum(s, inRun) ==
    IF s = <<>> THEN <<>>
    ELSE IF IsAlnumUpper(Head(s)) THEN <<Head(s)>> \o SubNonAlnum(Tail(s), FALSE)
    ELSE IF inRun THEN SubNonAlnum(Tail(s), TRUE)
    ELSE <<"-">> \o SubNonAlnum(Tail(s), TRUE)

\* str.strip("-")
RECURSIVE StripDash(_)
StripDash(s) ==
    IF s # <<>> /\ Head(s) = "-" THEN StripDash(Tail(s))
    ELSE IF s # <<>> /\ s[Len(s)] = "-" THEN StripDash(SubSeq(s, 1, Len(s) - 1))
    ELSE s

\* s[:n]
Prefix(s, n) == SubSeq(s, 1, IF Len(s) < n THEN Len(s) ELSE n)

\* def _slugify
_slugify(s) ==
    LET t == Lower(StripDash(SubNonAlnum(Upper(Strip(s)), FALSE))) IN
    IF t = <<>> THEN <<"r", "e", "u", "n", "i", "a", "o">> ELSE t

\* the slice [:40] of _make_session_id
SlugLimit == 40

\* def _make_session_id
_make_session_id(date_iso, time_hhmm, assunto) ==
    <<"d", "d", "s", "-">> \o Remove(date_iso, "-") \o <<"-">>
        \o Remove(time_hhmm, ":") \o <<"-">> \o Prefix(_slugify(assunto), SlugLimit)

\* re.match(pattern + "$", s): "$" also matches before one trailing newline
BeforeFinalNewline(s) ==
    IF s # <<>> /\ s[Len(s)] = "\n" THEN SubSeq(s, 1, Len(s) - 1) ELSE s

\* re.match(r"^\d{4}-\d{2}-\d{2}$", data)
MatchDate(s) ==
    \E t \in {s, BeforeFinalNewline(s)} :
        /\ Len(t) = 10
        /\ \A i \in {1, 2, 3, 4, 6, 7, 9, 10} : t[i] \in Digits
        /\ t[5] = "-" /\ t[8] = "-"

\* re.match(r"^\d{2}:\d{2}$", hora)
MatchTime(s) ==
    \E t \in {s, BeforeFinalNewline(s)} :
        /\ Len(t) = 5
        /\ \A i \in {1, 2, 4, 5} : t[i] \in Digits
        /\ t[3] = ":"

\* the shortest token _validate_token accepts
MinTokenLen == 12

\* def _validate_token: the HTTPException it raises, status 0 when it
\* returns the document
_validate_token(token) ==
    CASE token = "" \/ Len(token) < MinTokenLen ->
            [status |-> 400, detail |-> "Token invalido"]
      [] token \notin DOMAIN tokensDb ->
            [status |-> 404, detail |-> "Token nao encontrado"]
      [] tokensDb[token].status = "used" ->
            [status |-> 410, detail |-> "Token ja utilizado"]
      [] ~IsNone(tokensDb[token].expireAt)
           /\ clock > Val(tokensDb[token].expireAt) ->
            [status |-> 410, detail |-> "Token expirado"]
      [] OTHER -> [status |-> 0, detail |-> ""]

\* post_form, lines 102-115: the HTTPException of the form-field checks
FormFieldChecks(f) ==
    CASE _norm_team(f.host) = <<>> ->
            [status |-> 400, detail |-> "Host e obrigatorio"]
      [] ~MatchDate(f.data) ->
            [status |-> 400, detail |-> "Data invalida (use YYYY-MM-DD)"]
      [] ~MatchTime(f.hora) ->
            [status |-> 400, detail |-> "Hora invalida (use HH:MM)"]
      [] Strip(f.assunto) = <<>> ->
            [status |-> 400, detail |-> "Assunto e obrigatorio"]
      [] f.filename = "" ->
            [status |-> 400, detail |-> "Arquivo de capa invalido"]
      [] OTHER -> [status |-> 0, detail |-> ""]

\* cohost_n = _norm_team(cohost) if cohost else ""
CohostN(f) ==
    IF IsNone(f.cohost) \/ Val(f.cohost) = <<>> THEN <<>> ELSE _norm_team(Val(f.cohost))

\* session_payload, lines 121-137
SessionPayload(token, token_data, f, session_id) ==
    [type |-> "online", date |-> f.data, time |-> f.hora,
     timezone |-> "America/Sao_Paulo", subject |-> Strip(f.assunto),
     status |-> "scheduled", createdAt |-> clock,
     createdByEmail |-> token_data.senderEmail,
     hostTeams |-> <<_norm_team(f.host)>>,
     cohostTeams |-> (IF CohostN(f) = <<>> THEN <<>> ELSE <<CohostN(f)>>),
     participant |-> <<"*">>,
     channelName |-> session_id, formToken |-> token]

\* DocumentReference.set(data, merge=True) on a session document: the fields
\* given replace the stored ones, the others stay
MergeSession(sid, data) ==
    IF sid \in DOMAIN sessionsDb
    THEN [k \in DOMAIN sessionsDb[sid] \cup DOMAIN data |->
            IF k \in DOMAIN data THEN data[k] ELSE sessionsDb[sid][k]]
    ELSE data

SetSession(sid, data) ==
    [k \in DOMAIN sessionsDb \cup {sid} |->
        IF k = sid THEN MergeSession(sid, data) ELSE sessionsDb[k]]

\* blob_path = f"DDSv2/ONLINE/{session_id}/CAPA/{capa.filename}"
BlobPath(session_id, filename) ==
    <<"DDSv2/ONLINE/", session_id, "/CAPA/", filename>>

\* The requests the model submits to /online/agendar
T1 == "tok-00000001"
T2 == "tok-00000002"
FormTokens == {T1, T2, "tok-00000003", "tok-short"}
Dates    == { <<"2", "0", "2", "5", "-", "0", "1", "-", "0", "2">>,
              <<"2", "0", "2", "5", "-", "1", "-", "2">> }
Times    == { <<"1", "0", ":", "0", "0">>, <<"9", ":", "0", "0">> }
Subjects == { <<"D", "D", "S", " ", "a">>, <<"d", "d", "s", "-", "A", "!">>,
              <<"b">>, <<" ">> }
Hosts    == { <<"t", " ", "1">>, <<" ">> }
Cohosts  == { None, Some(<<"t", "2">>) }
Filenames == { "", "capa.png" }

Forms == [data : Dates, hora : Times, assunto : Subjects, host : Hosts,
          cohost : Cohosts, filename : Filenames]

\* A worker that holds no form request
IdleForm == [pc |-> "idle", kind |-> "none", token |-> "", status |-> 0,
             detail |-> "", form |-> None, token_data |-> None,
             session_id |-> None]

FormRaise(rq, status, detail) ==
    [rq EXCEPT !.pc = "done", !.status = status, !.detail = detail]

\* def get_form: one read of the token document, then the template
get_form(r) ==
    /\ freq[r].pc = "idle"
    /\ \E token \in FormTokens :
         LET chk == _validate_token(token)
             rq  == [IdleForm EXCEPT !.kind = "get", !.token = token]
         IN freq' = [freq EXCEPT ![r] =
                       IF chk.status # 0 THEN FormRaise(rq, chk.status, chk.detail)
                       ELSE [rq EXCEPT !.pc = "done", !.status = 200,
                                       !.token_data = Some(tokensDb[token])]]
    /\ UNCHANGED <<tokensDb, sessionsDb, bucketBlobs, clock>>
    /\ UNCHANGED tokVars

\* post_form, lines 100-118: the token read, the field checks, the session id
PostBegin(r) ==
    /\ freq[r].pc = "idle"
    /\ \E token \in FormTokens, f \in Forms :
         LET chk  == _validate_token(token)
             chk2 == FormFieldChecks(f)
             rq   == [IdleForm EXCEPT !.kind = "post", !.token = token]
         IN freq' = [freq EXCEPT ![r] =
                       IF chk.status # 0 THEN FormRaise(rq, chk.status, chk.detail)
                       ELSE IF chk2.status # 0
                       THEN FormRaise(rq, chk2.status, chk2.detail)
                       ELSE [rq EXCEPT
                               !.pc = "save_session", !.form = Some(f),
                               !.token_data = Some(tokensDb[token]),
                               !.session_id = Some(_make_session_id(
                                                 f.data, f.hora, f.assunto))]]
    /\ UNCHANGED <<tokensDb, sessionsDb, bucketBlobs, clock>>
    /\ UNCHANGED tokVars

\* A call to Firestore or to the bucket raised: the exception leaves
\* post_form and FastAPI answers 500.
StoreFails(r) ==
    /\ freq[r].pc \in {"save_session", "upload", "set_cover", "mark_used"}
    /\ freq' = [freq EXCEPT ![r] =
                  [@ EXCEPT !.status = 500,
                            !.detail = freq[r].pc,
                            !.pc = "done"]]
    /\ UNCHANGED <<tokensDb, sessionsDb, bucketBlobs, clock>>
    /\ UNCHANGED tokVars

\* A faulty variant of SaveSession: the token is marked used together with
\* the first write
SaveSessionMarkingUsed(r) ==
    /\ freq[r].pc = "save_session"
    /\ LET sid == Val(freq[r].session_id) IN
       /\ sessionsDb' = SetSession(sid, SessionPayload(freq[r].token,
                                   Val(freq[r].token_data), Val(freq[r].form), sid))
       /\ tokensDb' = [tokensDb EXCEPT ![freq[r].token] =
                         [k \in DOMAIN @ \cup {"status", "sessionId"} |->
                            CASE k = "status" -> "used"
                              [] k = "sessionId" -> sid
                              [] OTHER -> @[k]]]
    /\ freq' = [freq EXCEPT ![r].pc = "upload"]
    /\ UNCHANGED <<bucketBlobs, clock>>
    /\ UNCHANGED tokVars

\* post_form, line 138: 1) the session document
SaveSession(r) ==
    /\ freq[r].pc = "save_session"
    /\ LET sid == Val(freq[r].session_id) IN
       sessionsDb' = SetSession(sid, SessionPayload(freq[r].token,
                                   Val(freq[r].token_data), Val(freq[r].form), sid))
    /\ freq' = [freq EXCEPT ![r].pc = "upload"]
    /\ UNCHANGED <<tokensDb, bucketBlobs, clock>>
    /\ UNCHANGED tokVars

\* post_form, lines 141-146: 2) the cover file
UploadCapa(r) ==
    /\ freq[r].pc = "upload"
    /\ bucketBlobs' = bucketBlobs \cup
          {BlobPath(Val(freq[r].session_id), Val(freq[r].form).filename)}
    /\ freq' = [freq EXCEPT ![r].pc = "set_cover"]
    /\ UNCHANGED <<tokensDb, sessionsDb, clock>>
    /\ UNCHANGED tokVars

\* post_form, lines 149-152: 3) coverFiles on the session document
SetCoverFiles(r) ==
    /\ freq[r].pc = "set_cover"
    /\ LET sid == Val(freq[r].session_id) IN
       sessionsDb' = SetSession(sid,
          [coverFiles |-> <<BlobPath(sid, Val(freq[r].form).filename)>>,
           coverUpdatedAt |-> clock])
    /\ freq' = [freq EXCEPT ![r].pc = "mark_used"]
    /\ UNCHANGED <<tokensDb, bucketBlobs, clock>>
    /\ UNCHANGED tokVars

\* The token document after line 155's set(..., merge=True)
UsedTokenDoc(doc, session_id) ==
    [k \in DOMAIN doc \cup {"status", "usedAt", "sessionId"} |->
        CASE k = "status"    -> "used"
          [] k = "usedAt"    -> clock
          [] k = "sessionId" -> session_id
          [] OTHER           -> doc[k]]

\* post_form, lines 155-171: 4) the token is marked used, then the success page
MarkUsed(r) ==
    /\ freq[r].pc = "mark_used"
    /\ LET t == freq[r].token IN
       tokensDb' = [tokensDb EXCEPT ![t] =
                      UsedTokenDoc(tokensDb[t], Val(freq[r].session_id))]
    /\ freq' = [freq EXCEPT ![r] = [@ EXCEPT !.pc = "done", !.status = 200]]
    /\ UNCHANGED <<sessionsDb, bucketBlobs, clock>>
    /\ UNCHANGED tokVars

\* datetime.utcnow() advances
FormTick ==
    /\ clock < MaxClock
    /\ clock' = clock + 1
    /\ UNCHANGED <<tokensDb, sessionsDb, bucketBlobs, freq>>
    /\ UNCHANGED tokVars

\* ------------------------------------------------------- specifications
Workers == {"w1"}

\* No form worker, an empty store: the state of web_app.py's collections
\* in the behaviours of main.py
InitNoForm ==
    /\ tokensDb = <<>>
    /\ sessionsDb = <<>>
    /\ bucketBlobs = {}
    /\ freq = <<>>

InitToken(W) ==
    /\ env \in Envs
    /\ rtmLib \in RtmLibs
    /\ service = "loading"
    /\ APP_ID = NoVal
    /\ APP_CERTIFICATE = NoVal
    /\ API_KEY = NoVal
    /\ clock = 0
    /\ req = [r \in W |-> IdleReq]

Init == InitToken(Workers) /\ InitNoForm

Next ==
    \/ LoadModule
    \/ \E r \in DOMAIN req : ReceiveRequest(r, Payloads)
    \/ \E r \in DOMAIN req : EnterHandler(r)
    \/ \E r \in DOMAIN req : BuildRtc(r)
    \/ \E r \in DOMAIN req : BuildRtm(r)
    \/ Tick

Spec == Init /\ [][Next]_vars

\* ---- main.py: two worker threads, their requests interleaved. The bodies
\* are schema-valid ones that carry a key.
ConcWorkers == {"w1", "w2"}

ConcPayloads ==
    {p \in Payloads : /\ TokenRequestValid(p)
                      /\ p.uid = 12
                      /\ p.role # "cohost"
                      /\ p.api_key # NoVal
                      /\ p.user_account # Some(<<"b", " ">>)
                      /\ p.expire_seconds # None}

InitConc ==
    /\ InitToken(ConcWorkers)
    /\ env = [AGORA_APP_ID |-> "app1", AGORA_APP_CERTIFICATE |-> "cert1",
              TOKEN_SERVER_API_KEY |-> "k1"]
    /\ rtmLib = {"buildToken"}
    /\ InitNoForm

NextConc ==
    \/ LoadModule
    \/ \E r \in DOMAIN req : ReceiveRequest(r, ConcPayloads)
    \/ \E r \in DOMAIN req : EnterHandler(r)
    \/ \E r \in DOMAIN req : BuildRtc(r)
    \/ \E r \in DOMAIN req : BuildRtm(r)
    \/ Tick

SpecConc == InitConc /\ [][NextConc]_vars

\* ---- web_app.py: two requests, their store calls interleaved
FormWorkers == {"f1", "f2"}

\* The token documents another system has issued: not used, T1 expiring
PendingTokens ==
    (T1 :> [status |-> "pending", expireAt |-> Some(1), senderEmail |-> "a@dds"])
    @@ (T2 :> [status |-> "pending", expireAt |-> None, senderEmail |-> "b@dds"])

InitNoToken ==
    /\ env = [AGORA_APP_ID |-> NoVal, AGORA_APP_CERTIFICATE |-> NoVal,
              TOKEN_SERVER_API_KEY |-> NoVal]
    /\ rtmLib = {}
    /\ service = "loading"
    /\ APP_ID = NoVal
    /\ APP_CERTIFICATE = NoVal
    /\ API_KEY = NoVal
    /\ req = <<>>

InitForm ==
    /\ InitNoToken
    /\ clock = 0
    /\ tokensDb = PendingTokens
    /\ sessionsDb = <<>>
    /\ bucketBlobs = {}
    /\ freq = [r \in FormWorkers |-> IdleForm]

NextForm ==
    \/ \E r \in DOMAIN freq : get_form(r)
    \/ \E r \in DOMAIN freq : PostBegin(r)
    \/ \E r \in DOMAIN freq : SaveSession(r)
    \/ \E r \in DOMAIN freq : UploadCapa(r)
    \/ \E r \in DOMAIN freq : SetCoverFiles(r)
    \/ \E r \in DOMAIN freq : MarkUsed(r)
    \/ \E r \in DOMAIN freq : StoreFails(r)
    \/ FormTick

SpecForm == InitForm /\ [][NextForm]_vars

\* ---- web_app.py: the same requests one after the other
InFlight(rq) == rq.pc \notin {"idle", "done"}

NoneInFlight == \A r \in DOMAIN freq : ~InFlight(freq[r])

NextFormSeq ==
    \/ \E r \in DOMAIN freq : NoneInFlight /\ get_form(r)
    \/ \E r \in DOMAIN freq : NoneInFlight /\ PostBegin(r)
    \/ \E r \in DOMAIN freq : SaveSession(r)
    \/ \E r \in DOMAIN freq : UploadCapa(r)
    \/ \E r \in DOMAIN freq : SetCoverFiles(r)
    \/ \E r \in DOMAIN freq : MarkUsed(r)
    \/ \E r \in DOMAIN freq : StoreFails(r)
    \/ FormTick

SpecFormSeq == InitForm /\ [][NextFormSeq]_vars

\* ================================================================ claims
Done(r)     == req[r].pc = "done"
Received(r) == req[r].pc # "idle"
NoBuilderCalled(r) == req[r].rtcCalls = <<>> /\ req[r].rtmCalls = <<>>

\* C1: a request whose expire_seconds lies outside [60, 86400] is rejected
\* (422) without reaching the handler or a builder and gets no token; a
\* duration inside the range, the endpoints included, is never the reason of
\* a rejection; every successful response has expire_at = now +
\* expire_seconds, hence 60 <= expire_at - now <= 86400 and expire_at >= now.
C1_DurationWindow ==
    \A r \in DOMAIN req : Received(r) =>
        LET d == ExpireSecondsOf(P(r)) IN
        /\ (d < 60 \/ d > 86400) =>
              /\ Done(r) /\ req[r].status = 422
              /\ req[r].body = None /\ NoBuilderCalled(r)
        /\ (d >= 60 /\ d <= 86400) =>
              ~(req[r].status = 422 /\ req[r].detail = "expire_seconds")
        /\ (Done(r) /\ req[r].status = 200) =>
              LET b == Val(req[r].body) IN
              /\ b.expire_at = b.now + d
              /\ 60 <= b.expire_at - b.now /\ b.expire_at - b.now <= 86400
              /\ b.expire_at >= b.now

\* a token was issued for the longest duration, after the clock had advanced
C1_Witness ==
    \E r \in DOMAIN req :
        /\ Done(r) /\ req[r].status = 200
        /\ P(r).expire_seconds = Some(86400)
        /\ Val(req[r].body).now > 0
        /\ Val(req[r].body).expire_at = Val(req[r].body).now + 86400

\* C2: map_role maps host and cohost to the publisher role and participant
\* to the subscriber role, and every call of the media token builder passes
\* the role so mapped from the requested role.
C2_RoleMapping ==
    /\ map_role("host") = "Role_Publisher"
    /\ map_role("cohost") = "Role_Publisher"
    /\ map_role("participant") = "Role_Subscriber"
    /\ \A r \in DOMAIN req : \A i \in DOMAIN req[r].rtcCalls :
          /\ req[r].ep \in {"generate_tokens", "generate_rtc_token"}
          /\ req[r].rtcCalls[i].role =
                (IF P(r).role = "participant" THEN "Role_Subscriber"
                 ELSE "Role_Publisher")

\* the media builder was called for a cohost
C2_Witness ==
    \E r \in DOMAIN req :
        /\ req[r].rtcCalls # <<>>
        /\ P(r).role = "cohost"
        /\ req[r].rtcCalls[1].role = "Role_Publisher"

\* The input defects C4 names, per endpoint: the signaling-only endpoint does
\* not look at the channel beyond the schema, the media-only endpoint does not
\* look at the account beyond the schema.
C4_Defective(ep, p) ==
    \/ p.channel = <<>>
    \/ ep # "generate_rtm_token" /\ Strip(p.channel) = <<>>
    \/ p.uid < 0
    \/ p.user_account = Some(<<>>)
    \/ ep # "generate_rtc_token" /\ ~IsNone(p.user_account)
          /\ Strip(Val(p.user_account)) = <<>>
    \/ ExpireSecondsOf(p) < 60
    \/ ExpireSecondsOf(p) > 86400

\* C4: a request with an empty channel (after trimming), a negative uid, an
\* empty account (after trimming) or a duration out of range is rejected, and
\* at no point of its handling has either token builder been invoked.
C4_ValidationBeforeSigning ==
    \A r \in DOMAIN req :
        (Received(r) /\ C4_Defective(req[r].ep, P(r))) =>
            /\ NoBuilderCalled(r)
            /\ req[r].pc \in {"handler", "done"}
            /\ Done(r) => req[r].status # 200 /\ req[r].body = None

\* /token rejected a blank account with 400 before calling a builder
C4_Witness ==
    \E r \in DOMAIN req :
        /\ Done(r) /\ req[r].ep = "generate_tokens"
        /\ P(r).user_account = Some(<<" ">>)
        /\ req[r].status = 400 /\ NoBuilderCalled(r)

\* C5: on the endpoints that issue a signaling token, an account that is
\* empty after trimming is answered with a client error (4xx), never with
\* the internal-failure status (5xx).
C5_BlankAccountIsClientError ==
    \A r \in DOMAIN req :
        ( /\ Done(r)
          /\ req[r].ep \in {"generate_tokens", "generate_rtm_token"}
          /\ ResolveAccount(P(r)) = <<>> ) =>
            (req[r].status >= 400 /\ req[r].status <= 499)

\* C6: a signing library without any of the three entry points stops the
\* service at startup: no running service answers a signaling-token request
\* with the failure that no entry point exists.
C6_MissingEntryPointFailsAtStartup ==
    \A r \in DOMAIN req :
        ~( /\ service = "running"
           /\ Done(r)
           /\ req[r].ep \in {"generate_tokens", "generate_rtm_token"}
           /\ req[r].status = 500
           /\ req[r].exc = "RuntimeError" )

KeyMismatch(r) == Truthy(API_KEY) /\ P(r).api_key # API_KEY

\* C8 as stated: with a server key configured, every request whose api_key
\* is absent or different is answered 401.
C8_Original ==
    \A r \in DOMAIN req : (Done(r) /\ KeyMismatch(r)) => req[r].status = 401

\* C8 amended: with a server key configured, a request whose api_key is
\* absent or different never reaches a token builder and gets no token; it
\* is answered 422 when its body violates the TokenRequest schema and 401
\* otherwise, before any check of the handler. With no server key
\* configured no request is answered 401.
C8_Unauthorized ==
    \A r \in DOMAIN req : Received(r) =>
        /\ KeyMismatch(r) =>
              /\ NoBuilderCalled(r) /\ req[r].body = None
              /\ req[r].pc \in {"handler", "done"}
              /\ Done(r) =>
                    req[r].status = (IF TokenRequestValid(P(r)) THEN 401 ELSE 422)
        /\ ~Truthy(API_KEY) => req[r].status # 401

\* a request with a wrong key and a blank channel was answered 401, not 400
C8_Witness ==
    \E r \in DOMAIN req :
        /\ Done(r) /\ KeyMismatch(r)
        /\ P(r).api_key = "k2"
        /\ P(r).channel = <<" ">>
        /\ req[r].status = 401

\* What a successful response says besides the tokens, with the validity
\* expire_at - now in place of the two timestamps
C7_Core(r) ==
    LET b == [k \in DOMAIN Val(req[r].body) \ {"token", "rtc_token", "rtm_token"}
                |-> Val(req[r].body)[k]]
    IN [b EXCEPT !.now = 0, !.expire_at = b.expire_at - b.now]

\* C7: the handlers leave the credentials as the startup loaded them, and
\* under every interleaving of two requests each successful response is
\* fixed by its request's own body and the clock value that request read;
\* two requests with the same body get the same response up to the time.
C7_Stateless ==
    /\ service = "running" =>
          /\ APP_ID = env.AGORA_APP_ID
          /\ APP_CERTIFICATE = env.AGORA_APP_CERTIFICATE
          /\ API_KEY = env.TOKEN_SERVER_API_KEY
    /\ \A r \in DOMAIN req : (Done(r) /\ req[r].status = 200) =>
          LET b == Val(req[r].body)
              p == Val(req[r].payload)
          IN /\ b.uid = p.uid
             /\ b.now = Val(req[r].now_ts)
             /\ b.expire_at - b.now = Val(p.expire_seconds)
             /\ req[r].ep # "generate_rtm_token" =>
                   b.channel = Strip(p.channel) /\ b.role = p.role
             /\ req[r].ep = "generate_tokens" =>
                   b.user_account = ResolveAccount(p)
             /\ \A i \in DOMAIN req[r].rtcCalls :
                   /\ req[r].rtcCalls[i].app_id = env.AGORA_APP_ID
                   /\ req[r].rtcCalls[i].app_certificate = env.AGORA_APP_CERTIFICATE
             /\ \A i \in DOMAIN req[r].rtmCalls :
                   /\ req[r].rtmCalls[i].app_id = env.AGORA_APP_ID
                   /\ req[r].rtmCalls[i].app_cert = env.AGORA_APP_CERTIFICATE
    /\ \A r1, r2 \in DOMAIN req :
          ( /\ Done(r1) /\ req[r1].status = 200
            /\ Done(r2) /\ req[r2].status = 200
            /\ req[r1].ep = req[r2].ep
            /\ req[r1].payload = req[r2].payload ) => C7_Core(r1) = C7_Core(r2)

\* two workers answered different bodies at different times, both with 200
C7_Witness ==
    \E r1, r2 \in DOMAIN req :
        /\ r1 # r2
        /\ Done(r1) /\ req[r1].status = 200
        /\ Done(r2) /\ req[r2].status = 200
        /\ req[r1].ep = req[r2].ep
        /\ Val(req[r1].payload).channel # Val(req[r2].payload).channel
        /\ req[r1].now_ts # req[r2].now_ts

PostSucceeded(r) ==
    freq[r].kind = "post" /\ freq[r].pc = "done" /\ freq[r].status = 200

\* C3: a form token is single-use: at most one post_form carrying a given
\* token completes successfully, whatever the interleaving.
C3_SingleUse ==
    \A r1, r2 \in DOMAIN freq :
        (PostSucceeded(r1) /\ PostSucceeded(r2) /\ freq[r1].token = freq[r2].token)
            => r1 = r2

\* C3, for requests handled one after the other: a request that arrives
\* for a used token is answered 410 "Token ja utilizado" (holds under
\* SpecFormSeq, together with C3_SingleUse).
C3_LaterRequestsRejected ==
    [][ \A r \in DOMAIN freq :
          ( /\ freq[r].pc = "idle" /\ freq'[r].pc # "idle"
            /\ freq'[r].token \in DOMAIN tokensDb
            /\ tokensDb[freq'[r].token].status = "used" ) =>
              /\ freq'[r].pc = "done"
              /\ freq'[r].status = 410
              /\ freq'[r].detail = "Token ja utilizado" ]_vars

\* C9: in every step of post_form
\*   - a rejection by the token or the field checks changes neither the token
\*     documents nor the sessions nor the bucket;
\*   - a failing store call changes no token document, and the request's token
\*     is then used only if another request has completed with it;
\*   - a token document changes only in the last store write of a request,
\*     which ends it with success, and by then the session document carries
\*     coverFiles and the cover file is in the bucket.
C9_Step ==
    \A r \in DOMAIN freq :
        LET a == freq[r]
            b == freq'[r]
        IN
        /\ (a.pc = "idle" /\ b.pc = "done") =>
              UNCHANGED <<tokensDb, sessionsDb, bucketBlobs>>
        /\ (InFlight(a) /\ b.pc = "done" /\ b.status = 500) =>
              /\ tokensDb' = tokensDb
              /\ tokensDb'[a.token].status = "used" =>
                    \E r2 \in DOMAIN freq \ {r} :
                        PostSucceeded(r2) /\ freq[r2].token = a.token
        /\ (a # b /\ tokensDb' # tokensDb) =>
              /\ a.pc = "mark_used" /\ b.pc = "done" /\ b.status = 200
              /\ tokensDb'[a.token].status = "used"
              /\ \A t \in DOMAIN tokensDb \ {a.token} : tokensDb'[t] = tokensDb[t]
              /\ sessionsDb' = sessionsDb /\ bucketBlobs' = bucketBlobs
              /\ Val(a.session_id) \in DOMAIN sessionsDb
              /\ "coverFiles" \in DOMAIN sessionsDb[Val(a.session_id)]
              /\ BlobPath(Val(a.session_id), Val(a.form).filename) \in bucketBlobs

C9_MarkUsedIsLastWrite ==
    [][ /\ (tokensDb' # tokensDb => \E r \in DOMAIN freq : freq'[r] # freq[r])
        /\ C9_Step ]_vars

\* the upload failed after the session was written: the token is not used
C9_Witness ==
    \E r \in DOMAIN freq :
        /\ freq[r].kind = "post" /\ freq[r].pc = "done"
        /\ freq[r].status = 500 /\ freq[r].detail = "upload"
        /\ Val(freq[r].session_id) \in DOMAIN sessionsDb
        /\ tokensDb[freq[r].token].status # "used"

\* C10: once the submissions have been handled, one after the other, every
\* used token names, by its sessionId, an existing session document that
\* carries coverFiles and whose formToken is that token.
C10_UsedTokenOwnsSession ==
    NoneInFlight =>
        \A t \in DOMAIN tokensDb :
            tokensDb[t].status = "used" =>
                /\ tokensDb[t].sessionId \in DOMAIN sessionsDb
                /\ "coverFiles" \in DOMAIN sessionsDb[tokensDb[t].sessionId]
                /\ sessionsDb[tokensDb[t].sessionId].formToken = t

=============================================================================
